---- MODULE Spec2Model ----
(***************************************************************************)
(* Model of liampulles/sudoku-solver: the 9x9 grid, its validity check     *)
(* (both implementations), the possibility enumerator, the move ranker,    *)
(* the backtracking solver and the hint generator, together with a caller  *)
(* that builds input grids and invokes the operations.                     *)
(***************************************************************************)
EXTENDS Integers, Sequences, FiniteSets, TLC

\* ---------------------------------------------------------------- types

\* type CellGroup [9]Cell ; type Grid [9]CellGroup
N == 9

\* boxRow, boxCol := row/3, col/3
BoxSize == 3

Idx == 0 .. (N - 1)

Digits == 1 .. N

\* Cell: "From 0 to 9 (0 meaning unset)."
Cells == 0 .. N

\* Row-major positions of the nested range loops over a Grid.
Positions == 0 .. (N * N - 1)

RowOf(k) == k \div N

ColOf(k) == k % N

\* A Go array literal, written as a tuple of tuples, as a Grid value.
FromRows(rows) == [r \in Idx |-> [c \in Idx |-> rows[r + 1][c + 1]]]

\* sudokusolver.Grid{}: the zero value, every cell unset.
EmptyGrid == [r \in Idx |-> [c \in Idx |-> 0]]

\* var filled (test fixture)
filled ==
    FromRows(<< <<5, 3, 4, 6, 7, 8, 9, 1, 2>>,
                <<6, 7, 2, 1, 9, 5, 3, 4, 8>>,
                <<1, 9, 8, 3, 4, 2, 5, 6, 7>>,
                <<8, 5, 9, 7, 6, 1, 4, 2, 3>>,
                <<4, 2, 6, 8, 5, 3, 7, 9, 1>>,
                <<7, 1, 3, 9, 2, 4, 8, 5, 6>>,
                <<9, 6, 1, 5, 3, 7, 2, 8, 4>>,
                <<2, 8, 7, 4, 1, 9, 6, 3, 5>>,
                <<3, 4, 5, 2, 8, 6, 1, 7, 9>> >>)

\* ------------------------------------------------------------- validity

\* Variant of BoxIndex: boxCol is not scaled, so distinct boxes share an index.
BoxIndexUnscaled(row, col) == (col \div BoxSize) + (row \div BoxSize)

\* box := (boxCol * 3) + boxRow
BoxIndex(row, col) == ((col \div BoxSize) * BoxSize) + (row \div BoxSize)

\* The positions the scan visits before position k that index the same
\* numsSeenByBox row as k: only they can have set numsSeenByBox[box][...].
BoxCells == [b \in Idx |-> {k \in Positions : BoxIndex(RowOf(k), ColOf(k)) = b}]

\* numsSeenByRow[row][cell] when the scan reaches (row, col): set by an
\* earlier non-empty cell of the same row (the scan marks every non-empty
\* cell it passes without returning).
SeenByRow(g, row, col, cell) == \E c \in 0 .. (col - 1) : g[row][c] = cell

\* Variant of SeenByCol: the column table is never consulted.
SeenByColSkipped(g, row, col, cell) == FALSE

\* numsSeenByCol[col][cell] when the scan reaches (row, col).
SeenByCol(g, row, col, cell) == \E r \in 0 .. (row - 1) : g[r][col] = cell

\* numsSeenByBox[box][cell] when the scan reaches (row, col).
SeenByBox(g, row, col, cell) ==
    \E j \in BoxCells[BoxIndex(row, col)] :
        j < row * N + col /\ g[RowOf(j)][ColOf(j)] = cell

\* Grid.Valid, single pass over the cells with three seen tables: false at
\* the first non-empty cell whose value is already seen in its row, column
\* or box, true when the scan reaches the end.
Valid(g) ==
    \A row \in Idx : \A col \in Idx :
        LET cell == g[row][col]
        IN  cell = 0 \/ ( /\ ~SeenByRow(g, row, col, cell)
                          /\ ~SeenByCol(g, row, col, cell)
                          /\ ~SeenByBox(g, row, col, cell) )

\* --------------------------------------------------------------- solver

\* The nested range loops of Backtrack skipping filled cells: the first
\* position at or after k whose cell is unset, N*N when there is none.
FirstEmpty(g, k) ==
    LET unset == {j \in k .. (N * N - 1) : g[RowOf(j)][ColOf(j)] = 0}
    IN  IF unset = {} THEN N * N
        ELSE CHOOSE j \in unset : \A h \in unset : j <= h

\* Variant of SetCell: the copy is made and the cell is left as it was.
SetCellUnfilled(g, row, col, v) == g

\* variant := grid; variant[row][col] = i
SetCell(g, row, col, v) == [g EXCEPT ![row][col] = v]

RECURSIVE Backtrack(_)
RECURSIVE TryDigits(_, _, _, _)

\* Variant of TryDigits: returns failure after the first digit that fails.
TryDigitsGiveUp(grid, row, col, i) ==
    IF i > N THEN [grid |-> grid, solved |-> FALSE]
    ELSE LET res == Backtrack(SetCell(grid, row, col, i))
         IN  IF res.solved THEN [grid |-> res.grid, solved |-> TRUE]
             ELSE [grid |-> grid, solved |-> FALSE]

\* Variant of TryDigits: on exhaustion returns the last variant tried.
TryDigitsLeak(grid, row, col, i) ==
    IF i > N THEN [grid |-> SetCell(grid, row, col, N), solved |-> FALSE]
    ELSE LET res == Backtrack(SetCell(grid, row, col, i))
         IN  IF res.solved THEN [grid |-> res.grid, solved |-> TRUE]
             ELSE TryDigits(grid, row, col, i + 1)

\* Variant of TryDigits: tries the digits in descending order.
TryDigitsDescending(grid, row, col, i) ==
    IF i > N THEN [grid |-> grid, solved |-> FALSE]
    ELSE LET res == Backtrack(SetCell(grid, row, col, N + 1 - i))
         IN  IF res.solved THEN [grid |-> res.grid, solved |-> TRUE]
             ELSE TryDigits(grid, row, col, i + 1)

\* Variant of TryDigits: on success returns variant, not the grid the
\* recursive call filled.
TryDigitsReturnsVariant(grid, row, col, i) ==
    IF i > N THEN [grid |-> grid, solved |-> FALSE]
    ELSE LET res == Backtrack(SetCell(grid, row, col, i))
         IN  IF res.solved THEN [grid |-> SetCell(grid, row, col, i), solved |-> TRUE]
             ELSE TryDigits(grid, row, col, i + 1)

\* for i := Cell(1); i <= 9; i++ { ... } followed by return grid, false
TryDigits(grid, row, col, i) ==
    IF i > N THEN [grid |-> grid, solved |-> FALSE]
    ELSE LET res == Backtrack(SetCell(grid, row, col, i))
         IN  IF res.solved THEN [grid |-> res.grid, solved |-> TRUE]
             ELSE TryDigits(grid, row, col, i + 1)

Backtrack(grid) ==
    IF ~Valid(grid) THEN [grid |-> grid, solved |-> FALSE]
    ELSE LET k == FirstEmpty(grid, 0)
         IN  IF k = N * N THEN [grid |-> grid, solved |-> TRUE]
             ELSE TryDigits(grid, RowOf(k), ColOf(k), 1)

\* ------------------------------------------- validity, CellGroup version

\* CellGroup.Valid: "Should not have duplicates of cells 1 to 9."  A
\* CellGroup is a function on Idx; numSeen[cell] when the loop reaches
\* index i is set by an earlier non-empty element.
CellGroupValid(c) ==
    \A i \in Idx : c[i] = 0 \/ ~(\E j \in 0 .. (i - 1) : c[j] = c[i])

\* Grid.Rows
Rows(g) == g

\* Grid.Columns: columns[col][row] = cell ("Effectively transposes the grid.")
Columns(g) == [col \in Idx |-> [row \in Idx |-> g[row][col]]]

\* pos := (posCol * 3) + posRow
BoxPos(row, col) ==
    ((col - (col \div BoxSize) * BoxSize) * BoxSize) + (row - (row \div BoxSize) * BoxSize)

\* The cells Grid.Boxes writes to boxes[box][pos], as row-major positions.
BoxSources ==
    [box \in Idx |->
        [pos \in Idx |->
            {k \in Positions : /\ BoxIndex(RowOf(k), ColOf(k)) = box
                               /\ BoxPos(RowOf(k), ColOf(k)) = pos}]]

\* Grid.Boxes: boxes[box][pos] = cell for every cell of the loop, the last
\* write winning; a slot no cell is written to keeps the zero value.
Boxes(g) ==
    [box \in Idx |->
        [pos \in Idx |->
            LET src == BoxSources[box][pos]
            IN  IF src = {} THEN 0
                ELSE LET k == CHOOSE k \in src : \A j \in src : j <= k
                     IN  g[RowOf(k)][ColOf(k)]]]

\* Grid.Valid over Rows, Columns and Boxes.
ValidGroups(g) ==
    /\ \A i \in Idx : CellGroupValid(Rows(g)[i])
    /\ \A i \in Idx : CellGroupValid(Columns(g)[i])
    /\ \A i \in Idx : CellGroupValid(Boxes(g)[i])

\* ---------------------------------------------------- moves and ranking

\* type Move struct { Row int; Col int; Value Cell }
Move(row, col, value) == [Row |-> row, Col |-> col, Value |-> value]

\* Grid.Apply
Apply(g, m) == SetCell(g, m.Row, m.Col, m.Value)

\* The unset cells in the order the nested range loops visit them, as
\* row-major positions.
EmptySeq(g) ==
    SelectSeq([n \in 1 .. (N * N) |-> n - 1], LAMBDA k : g[RowOf(k)][ColOf(k)] = 0)

\* Grid.Possibilities.  For every unset cell and every digit 1..9 the loop
\* builds variant and then tests "if g.Valid()": the receiver, which the
\* loop never changes, so the test has the same value for every variant.
Possibilities(g) ==
    LET empties == EmptySeq(g)
        gValid == Valid(g)
    IN  IF gValid
          THEN [n \in 1 .. (Len(empties) * N) |->
                   LET k == empties[((n - 1) \div N) + 1]
                   IN  Move(RowOf(k), ColOf(k), ((n - 1) % N) + 1)]
        ELSE << >>

\* groupMoves: grouped[row][col] is the subsequence of moves to that cell.
groupMoves(moves) ==
    [row \in Idx |-> [col \in Idx |->
        SelectSeq(moves, LAMBDA m : m.Row = row /\ m.Col = col)]]

\* CellGroup.Count
Count(c) == Cardinality({i \in Idx : c[i] # 0})

\* Grid.RowAt
RowAt(g, row) == g[row]

\* Grid.ColumnAt
ColumnAt(g, col) == [i \in Idx |-> g[i][col]]

\* Grid.BoxAt: box[i] = g[row][col] for each of the nine (r, c) of the box.
BoxAt(g, row, col) == [i \in Idx |-> g[row][col]]

\* Grid.NumCounts
NumCounts(g) ==
    [v \in Cells |-> Cardinality({k \in Positions : g[RowOf(k)][ColOf(k)] = v})]

\* Move.Rank
Rank(m, g) ==
    LET applied == Apply(g, m)
        moveGrid == groupMoves(Possibilities(applied))
    IN  IF \E row \in Idx : \E col \in Idx : Len(moveGrid[row][col]) = 1
          THEN 0
        ELSE Count(RowAt(applied, m.Row)) + Count(ColumnAt(applied, m.Col))
             + Count(BoxAt(applied, m.Row, m.Col)) + NumCounts(applied)[m.Value]

\* ---------------------------------------------------------------- hints

\* Variant of CollectMoves: the move carries early's value of the cell.
CollectMovesEarlyValue(early, later) ==
    LET at == SelectSeq([n \in 1 .. (N * N) |-> n - 1],
                        LAMBDA k : /\ early[RowOf(k)][ColOf(k)] = 0
                                   /\ later[RowOf(k)][ColOf(k)] # 0)
    IN  [n \in 1 .. Len(at) |->
            Move(RowOf(at[n]), ColOf(at[n]), early[RowOf(at[n])][ColOf(at[n])])]

\* The first loop of Hint: a move for every cell unset in early and set in
\* later, in row-major order, with later's value.
CollectMoves(early, later) ==
    LET at == SelectSeq([n \in 1 .. (N * N) |-> n - 1],
                        LAMBDA k : /\ early[RowOf(k)][ColOf(k)] = 0
                                   /\ later[RowOf(k)][ColOf(k)] # 0)
    IN  [n \in 1 .. Len(at) |->
            Move(RowOf(at[n]), ColOf(at[n]), later[RowOf(at[n])][ColOf(at[n])])]

\* Variant of RankCmp: the operands exchanged.
RankCmpReversed(a, b) == b - a

\* The comparison of Possibilities.Sort: a.Rank - b.Rank, negative when a
\* sorts before b.
RankCmp(a, b) == a - b

\* Possibilities.Sort: the orders slices.SortFunc may leave *p in.  The sort
\* is not stable, so every arrangement of the moves in which no move sorts
\* before an earlier one is a possible outcome.
Sort(p, g) ==
    LET n == Len(p)
        ranks == [i \in 1 .. n |-> Rank(p[i], g)] \o << >>
    IN  { [i \in 1 .. n |-> p[f[i]]] :
            f \in { f \in Permutations(1 .. n) :
                      \A i \in 1 .. n : \A j \in (i + 1) .. n :
                          RankCmp(ranks[f[j]], ranks[f[i]]) >= 0 } }

\* Variant of NoMoves: a single move counts as none.
NoMovesOrOne(moves) == Len(moves) <= 1

\* if len(moves) == 0 { panic(...) }
NoMoves(moves) == Len(moves) = 0

NoMove == Move(0, 0, 0)

\* Hint: the outcomes of a call, a panic or the first move of a sorted order.
Hint(early, later) ==
    LET moves == CollectMoves(early, later)
    IN  IF NoMoves(moves) THEN {[panic |-> TRUE, move |-> NoMove]}
        ELSE {[panic |-> FALSE, move |-> q[1]] : q \in Sort(moves, early)}

\* ------------------------------------------------------------ the caller

\* How many cells of the caller's grid may hold a digit other than the
\* solved grid's.
MaxPlaces == 1

\* The cells the caller edits: the corners of a rectangle of the solved grid
\* whose digits can be exchanged, (2,4)=4 (2,5)=2 (5,4)=2 (5,5)=4, and the
\* cells holding the 8 of row 2 and the 8 of column 4.
EditCells == {<<2, 4>>, <<2, 5>>, <<5, 4>>, <<5, 5>>, <<2, 2>>, <<8, 4>>}

Misplaced(g) == {rc \in EditCells : g[rc[1]][rc[2]] # 0 /\ g[rc[1]][rc[2]] # filled[rc[1]][rc[2]]}

VARIABLES
    grid,        \* the caller's grid, the argument of the next call
    op,          \* the operation that returned last, "none" after an edit
    retValid,    \* Valid's result
    retMoves,    \* Possibilities' result
    retGrid,     \* Backtrack's first result
    retSolved,   \* Backtrack's second result
    later,       \* Hint's second argument
    retMove,     \* Hint's result
    panicked,    \* Hint panicked
    fromSolver,  \* grid is a grid Backtrack returned with true
    retRank,     \* Rank's result
    stack        \* the call frames of a running Backtrack, the innermost last

vars == <<grid, op, retValid, retMoves, retGrid, retSolved, later, retMove, panicked, fromSolver,
          retRank, stack>>

NoResults ==
    /\ retValid' = FALSE
    /\ retMoves' = << >>
    /\ retGrid' = EmptyGrid
    /\ retSolved' = FALSE
    /\ later' = EmptyGrid
    /\ retMove' = NoMove
    /\ panicked' = FALSE

Init ==
    /\ grid = filled
    /\ op = "none"
    /\ retValid = FALSE
    /\ retMoves = << >>
    /\ retGrid = EmptyGrid
    /\ retSolved = FALSE
    /\ later = EmptyGrid
    /\ retMove = NoMove
    /\ panicked = FALSE
    /\ fromSolver = FALSE
    /\ retRank = 0
    /\ stack = << >>

\* The caller writes a cell of its grid.
SetInput(row, col, v) ==
    /\ op = "none"
    /\ <<row, col>> \in EditCells
    /\ v # grid[row][col]
    /\ Cardinality(Misplaced(SetCell(grid, row, col, v))) <= MaxPlaces
    /\ grid' = SetCell(grid, row, col, v)
    /\ fromSolver' = FALSE
    /\ op' = "none"
    /\ NoResults
    /\ UNCHANGED <<retRank, stack>>

\* grid.Valid(), the seen-table implementation
CallValid ==
    /\ op = "none"
    /\ op' = "Valid"
    /\ retValid' = Valid(grid)
    /\ UNCHANGED <<grid, retMoves, retGrid, retSolved, later, retMove, panicked, fromSolver, retRank, stack>>

\* grid.Valid(), the CellGroup implementation
CallValidGroups ==
    /\ op = "none"
    /\ op' = "ValidGroups"
    /\ retValid' = ValidGroups(grid)
    /\ UNCHANGED <<grid, retMoves, retGrid, retSolved, later, retMove, panicked, fromSolver, retRank, stack>>

\* grid.Possibilities()
CallPossibilities ==
    /\ op = "none"
    /\ op' = "Possibilities"
    /\ retMoves' = Possibilities(grid)
    /\ UNCHANGED <<grid, retValid, retGrid, retSolved, later, retMove, panicked, fromSolver, retRank, stack>>

\* Backtrack(grid)
CallBacktrack ==
    /\ op = "none"
    /\ op' = "Backtrack"
    /\ LET res == Backtrack(grid)
       IN  /\ retGrid' = res.grid
           /\ retSolved' = res.solved
    /\ UNCHANGED <<grid, retValid, retMoves, later, retMove, panicked, fromSolver, retRank, stack>>

\* Hint(grid, l)
DoHint(l) ==
    /\ op' = "Hint"
    /\ later' = l
    /\ \E o \in Hint(grid, l) :
          /\ panicked' = o.panic
          /\ retMove' = o.move
    /\ retGrid' = EmptyGrid
    /\ retSolved' = FALSE
    /\ UNCHANGED <<grid, retValid, retMoves, fromSolver, retRank, stack>>

\* Hint called with a later grid of the caller's choosing.
CallHint ==
    /\ op = "none"
    /\ \E l \in {filled, EmptyGrid, grid} : DoHint(l)

\* Hint called with the grid Backtrack has just returned for grid, as
\* Test_HintHelper does.
CallHintSolved ==
    /\ op = "Backtrack"
    /\ retSolved
    /\ DoHint(retGrid)

\* The caller takes the solved grid as its grid.
TakeSolution ==
    /\ op = "Backtrack"
    /\ retSolved
    /\ grid' = retGrid
    /\ fromSolver' = TRUE
    /\ op' = "none"
    /\ NoResults
    /\ UNCHANGED <<retRank, stack>>

\* The caller drops the result of the last call.
Return ==
    /\ op # "none"
    /\ op' = "none"
    /\ NoResults
    /\ UNCHANGED <<grid, fromSolver, retRank, stack>>

Next ==
    \/ \E row \in Idx : \E col \in Idx : \E v \in Cells : SetInput(row, col, v)
    \/ CallValid
    \/ CallValidGroups
    \/ CallPossibilities
    \/ CallBacktrack
    \/ CallHint
    \/ CallHintSolved
    \/ TakeSolution
    \/ Return

Spec == Init /\ [][Next]_vars

\* ---------------------------------------------------------------------
\* A caller of Rank: the grid is the solved fixture with some cells taken
\* out, or the zero grid, and the move fills one empty cell.

InitRank ==
    /\ grid \in {filled, EmptyGrid}
    /\ op = "none"
    /\ retValid = FALSE
    /\ retMoves = << >>
    /\ retGrid = EmptyGrid
    /\ retSolved = FALSE
    /\ later = EmptyGrid
    /\ retMove = NoMove
    /\ panicked = FALSE
    /\ fromSolver = FALSE
    /\ retRank = 0
    /\ stack = << >>

\* The caller empties a cell of its grid.
ClearCell(row, col) ==
    /\ op = "none"
    /\ <<row, col>> \in EditCells
    /\ grid[row][col] # 0
    /\ grid' = SetCell(grid, row, col, 0)
    /\ UNCHANGED <<op, retValid, retMoves, retGrid, retSolved, later, retMove, panicked,
                   fromSolver, retRank, stack>>

\* Move{row, col, v}.Rank(grid)
CallRank(row, col, v) ==
    /\ op = "none"
    /\ <<row, col>> \in EditCells
    /\ grid[row][col] = 0
    /\ op' = "Rank"
    /\ retMove' = Move(row, col, v)
    /\ retRank' = Rank(Move(row, col, v), grid)
    /\ UNCHANGED <<grid, retValid, retMoves, retGrid, retSolved, later, panicked,
                   fromSolver, stack>>

\* The caller drops the rank.
DropRank ==
    /\ op = "Rank"
    /\ op' = "none"
    /\ retMove' = NoMove
    /\ retRank' = 0
    /\ UNCHANGED <<grid, retValid, retMoves, retGrid, retSolved, later, panicked,
                   fromSolver, stack>>

NextRank ==
    \/ \E row \in Idx : \E col \in Idx : ClearCell(row, col)
    \/ \E row \in Idx : \E col \in Idx : \E v \in Digits : CallRank(row, col, v)
    \/ DropRank

SpecRank == InitRank /\ [][NextRank]_vars

\* ---------------------------------------------------------------------
\* Backtrack step by step: one frame per call that has not returned yet.
\* A frame holds the call's grid, the cell and the digit its loop is at, and,
\* once it has returned, the pair it returns.

unsolvable == FromRows(<<
    <<1, 2, 3, 0, 0, 0, 0, 0, 0>>,
    <<0, 0, 0, 0, 4, 0, 0, 0, 0>>,
    <<0, 0, 0, 0, 0, 0, 0, 0, 4>>,
    <<0, 0, 0, 0, 0, 0, 0, 0, 0>>,
    <<0, 0, 0, 0, 0, 0, 0, 0, 0>>,
    <<0, 0, 0, 0, 0, 0, 0, 0, 0>>,
    <<0, 0, 0, 0, 0, 0, 0, 0, 0>>,
    <<0, 0, 0, 0, 0, 0, 0, 0, 0>>,
    <<0, 0, 0, 0, 0, 0, 0, 0, 0>> >>)

\* g with the cells of S emptied.
Cleared(g, S) ==
    [row \in Idx |-> [col \in Idx |-> IF <<row, col>> \in S THEN 0 ELSE g[row][col]]]

\* The grids Backtrack is called with: the zero grid, the test's unsolvable
\* grid, the solved fixture with cells taken out, and one with a cell
\* misplaced.
SearchInputs ==
    {EmptyGrid, unsolvable, Cleared(filled, EditCells),
     SetCell(Cleared(filled, EditCells), 2, 4, 8)}

\* The frame of a call that has just been made on g.
Called(g) ==
    [grid |-> g, row |-> 0, col |-> 0, i |-> 0, pc |-> "enter",
     filled |-> EmptyGrid, solved |-> FALSE]

\* The frame f once its call has returned (g, ok).
Returned(f, g, ok) == [f EXCEPT !.pc = "return", !.filled = g, !.solved = ok]

\* The frames with the innermost one replaced by f.
WithTop(f) == [stack EXCEPT ![Len(stack)] = f]

\* The deepest the calls can nest before the model stops following them.
MaxDepth == 82

InitSearch ==
    /\ grid \in SearchInputs
    /\ op = "none"
    /\ retValid = FALSE
    /\ retMoves = << >>
    /\ retGrid = EmptyGrid
    /\ retSolved = FALSE
    /\ later = EmptyGrid
    /\ retMove = NoMove
    /\ panicked = FALSE
    /\ fromSolver = FALSE
    /\ retRank = 0
    /\ stack = << >>

\* The caller calls Backtrack(grid).
SearchCall ==
    /\ op = "none"
    /\ stack = << >>
    /\ op' = "searching"
    /\ stack' = <<Called(grid)>>
    /\ UNCHANGED <<grid, retValid, retMoves, retGrid, retSolved, later, retMove, panicked,
                   fromSolver, retRank>>

\* The innermost call starts: it returns at once on an invalid grid and on
\* a grid with no empty cell, else it enters the digit loop of the first
\* empty cell.
SearchEnter ==
    /\ stack # << >>
    /\ LET f == stack[Len(stack)]
           k == FirstEmpty(f.grid, 0)
       IN  /\ f.pc = "enter"
           /\ stack' = WithTop(
                 IF ~Valid(f.grid) THEN Returned(f, f.grid, FALSE)
                 ELSE IF k = N * N THEN Returned(f, f.grid, TRUE)
                 ELSE [f EXCEPT !.row = RowOf(k), !.col = ColOf(k), !.i = 1, !.pc = "loop"])
    /\ UNCHANGED <<grid, op, retValid, retMoves, retGrid, retSolved, later, retMove, panicked,
                   fromSolver, retRank>>

\* The innermost call copies its grid, fills the cell in with i and calls
\* Backtrack on the copy.
SearchDescend ==
    /\ stack # << >>
    /\ Len(stack) <= MaxDepth
    /\ LET f == stack[Len(stack)]
       IN  /\ f.pc = "loop"
           /\ stack' = Append(WithTop([f EXCEPT !.pc = "call"]),
                              Called(SetCell(f.grid, f.row, f.col, f.i)))
    /\ UNCHANGED <<grid, op, retValid, retMoves, retGrid, retSolved, later, retMove, panicked,
                   fromSolver, retRank>>

\* The innermost call has returned to its caller, which returns the solved
\* grid, or goes on to the next digit, or returns its own grid after digit 9.
SearchResume ==
    /\ Len(stack) > 1
    /\ LET f == stack[Len(stack)]
           c == stack[Len(stack) - 1]
           rest == SubSeq(stack, 1, Len(stack) - 2)
       IN  /\ f.pc = "return"
           /\ stack' = rest \o
                 << IF f.solved THEN Returned(c, f.filled, TRUE)
                    ELSE IF c.i = N THEN Returned(c, c.grid, FALSE)
                    ELSE [c EXCEPT !.i = c.i + 1, !.pc = "loop"] >>
    /\ UNCHANGED <<grid, op, retValid, retMoves, retGrid, retSolved, later, retMove, panicked,
                   fromSolver, retRank>>

\* The outermost call returns to the caller.
SearchFinish ==
    /\ Len(stack) = 1
    /\ stack[1].pc = "return"
    /\ retGrid' = stack[1].filled
    /\ retSolved' = stack[1].solved
    /\ op' = "Backtrack"
    /\ stack' = << >>
    /\ UNCHANGED <<grid, retValid, retMoves, later, retMove, panicked, fromSolver, retRank>>

NextSearch ==
    \/ SearchCall
    \/ SearchEnter
    \/ SearchDescend
    \/ SearchResume
    \/ SearchFinish

\* A call that has been made runs on until it returns.
SpecSearch == InitSearch /\ [][NextSearch]_vars /\ WF_vars(NextSearch)

\* ------------------------------------------------------------ properties

CellAt(g, k) == g[RowOf(k)][ColOf(k)]

\* Two distinct cells share a row, a column or a 3x3 box of the board.
SameGroup(j, k) ==
    \/ RowOf(j) = RowOf(k)
    \/ ColOf(j) = ColOf(k)
    \/ /\ RowOf(j) \div 3 = RowOf(k) \div 3
       /\ ColOf(j) \div 3 = ColOf(k) \div 3

PeerPairs == {p \in Positions \X Positions : p[1] < p[2] /\ SameGroup(p[1], p[2])}

Peers == [k \in Positions |-> {j \in Positions : j # k /\ SameGroup(j, k)}]

\* Some row, column or box holds the same non-zero value twice.
HasDuplicate(g) ==
    \E p \in PeerPairs : CellAt(g, p[1]) # 0 /\ CellAt(g, p[1]) = CellAt(g, p[2])

\* The duplicates of g that lie in one box but in different rows and columns.
BoxOnlyDuplicates(g) ==
    {p \in PeerPairs : /\ CellAt(g, p[1]) # 0
                       /\ CellAt(g, p[1]) = CellAt(g, p[2])
                       /\ RowOf(p[1]) # RowOf(p[2])
                       /\ ColOf(p[1]) # ColOf(p[2])}

Empties(g) == {k \in Positions : CellAt(g, k) = 0}

Complete(g) == Empties(g) = {}

\* s agrees with g on every cell that is non-zero in g.
Extends(s, g) == \A k \in Positions : CellAt(g, k) = 0 \/ CellAt(s, k) = CellAt(g, k)

\* The digits no peer of cell k holds.
Candidates(g, k) == {v \in Digits : \A j \in Peers[k] : CellAt(g, j) # v}

\* Every way of giving each cell of E one of its candidates.
RECURSIVE Fillings(_, _)
Fillings(g, E) ==
    IF E = {} THEN {<< >>}
    ELSE LET k == CHOOSE k \in E : TRUE
         IN  {(k :> v) @@ f : v \in Candidates(g, k), f \in Fillings(g, E \ {k})}

Fill(g, f) ==
    [r \in Idx |-> [c \in Idx |->
        IF r * N + c \in DOMAIN f THEN f[r * N + c] ELSE g[r][c]]]

\* The complete grids without duplicates that agree with g on its non-zero
\* cells.  A completion gives every empty cell a digit none of its peers
\* holds in g, so the fillings by candidates contain them all.
Completions(g) ==
    IF HasDuplicate(g) THEN {}
    ELSE {s \in {Fill(g, f) : f \in Fillings(g, Empties(g))} : ~HasDuplicate(s)}

\* a comes before b when the 81 cells are read in row-major order.
LexLess(a, b) ==
    \E k \in Positions :
        /\ CellAt(a, k) < CellAt(b, k)
        /\ \A j \in 0 .. (k - 1) : CellAt(a, j) = CellAt(b, j)

\* C1: Valid returns true iff no row, column or box of the grid holds the
\* same non-zero value twice, in the seen-table implementation and in the
\* CellGroup one.
C1_ValidIffNoDuplicate ==
    op \in {"Valid", "ValidGroups"} => (retValid <=> ~HasDuplicate(grid))

\* Valid has rejected a grid whose only duplicate lies across a box.
C1_Witness ==
    /\ op = "Valid"
    /\ ~retValid
    /\ BoxOnlyDuplicates(grid) # {}
    /\ \A p \in PeerPairs :
          (CellAt(grid, p[1]) # 0 /\ CellAt(grid, p[1]) = CellAt(grid, p[2]))
              => p \in BoxOnlyDuplicates(grid)

\* C2: when Backtrack returns true, the returned grid has no empty cell, has
\* no duplicate and agrees with the input on every non-zero cell of it.
C2_SolutionSound ==
    (op = "Backtrack" /\ retSolved) =>
        /\ Complete(retGrid)
        /\ ~HasDuplicate(retGrid)
        /\ Extends(retGrid, grid)

\* Backtrack has solved a grid with several empty cells.
C2_Witness ==
    /\ op = "Backtrack"
    /\ retSolved
    /\ Cardinality(Empties(grid)) >= 3

\* C3: Backtrack returns true iff the grid is valid and has a completion.
C3_SolvedIffCompletable ==
    op = "Backtrack" =>
        (retSolved <=> (~HasDuplicate(grid) /\ Completions(grid) # {}))

\* Backtrack has reported failure for a grid that breaks no rule but has no
\* completion.
C3_Witness ==
    /\ op = "Backtrack"
    /\ ~retSolved
    /\ ~HasDuplicate(grid)

\* C4: when Backtrack returns false, the grid it returns is the input grid.
C4_FailureReturnsInput ==
    (op = "Backtrack" /\ ~retSolved) => retGrid = grid

\* Backtrack has failed after a search: the grid breaks no rule, has empty
\* cells, and its first empty cell admits a digit.
C4_Witness ==
    /\ op = "Backtrack"
    /\ ~retSolved
    /\ ~HasDuplicate(grid)
    /\ \E k \in Empties(grid) :
          /\ \A j \in Empties(grid) : k <= j
          /\ Candidates(grid, k) # {}

\* C5: when Backtrack returns true, the returned grid is the completion of
\* the input that comes first in row-major lexicographic order.
C5_FirstCompletion ==
    (op = "Backtrack" /\ retSolved) =>
        /\ retGrid \in Completions(grid)
        /\ \A s \in Completions(grid) : s = retGrid \/ LexLess(retGrid, s)

\* Backtrack has chosen among several completions, and not the grid the
\* input was cut from.
C5_Witness ==
    /\ op = "Backtrack"
    /\ retSolved
    /\ Cardinality(Completions(grid)) >= 2
    /\ retGrid # filled

\* C6: Backtrack called on a grid it returned with true returns that grid
\* and true.
C6_Idempotent ==
    (op = "Backtrack" /\ fromSolver) => (retSolved /\ retGrid = grid)

\* Backtrack has been called on its own output.
C6_Witness == op = "Backtrack" /\ fromSolver /\ grid # filled

\* The range of a sequence.
Range(q) == {q[i] : i \in DOMAIN q}

\* The cells that are empty in early and filled in later.
Fillable(early, l) == {k \in Positions : CellAt(early, k) = 0 /\ CellAt(l, k) # 0}

\* The move that gives cell k the value it has in l.
MoveFrom(l, k) == Move(RowOf(k), ColOf(k), CellAt(l, k))

\* The cells in which two grids differ.
Differing(a, b) == {k \in Positions : CellAt(a, k) # CellAt(b, k)}

\* Some cell that is non-zero in early holds another value in later.
Mismatch(early, l) == \E k \in Positions : CellAt(early, k) # 0 /\ CellAt(l, k) # CellAt(early, k)

\* C7 (as claimed): Possibilities contains (row, col, v) iff the cell is
\* empty, v is in 1..9 and the grid with v placed there has no duplicate.
C7_PossibilitiesExact ==
    op = "Possibilities" =>
        \A k \in Positions : \A v \in Digits :
            (Move(RowOf(k), ColOf(k), v) \in Range(retMoves))
                <=> ( /\ CellAt(grid, k) = 0
                      /\ ~HasDuplicate(SetCell(grid, RowOf(k), ColOf(k), v)) )

\* C8: a move Hint returns names a cell that is empty in early and carries
\* later's non-zero value of that cell; when later agrees with early except
\* in one cell that is empty in early, Hint returns that cell's move.
C8_HintMoveFromLater ==
    /\ (op = "Hint" /\ ~panicked) =>
          /\ retMove.Row \in Idx /\ retMove.Col \in Idx
          /\ grid[retMove.Row][retMove.Col] = 0
          /\ retMove.Value # 0
          /\ retMove.Value = later[retMove.Row][retMove.Col]
    /\ (op = "Hint" /\ Extends(later, grid) /\ Cardinality(Differing(grid, later)) = 1) =>
          /\ ~panicked
          /\ \A k \in Differing(grid, later) : retMove = MoveFrom(later, k)

\* Hint has returned for a later grid that fills exactly one cell of early.
C8_Witness ==
    /\ op = "Hint"
    /\ ~panicked
    /\ Extends(later, grid)
    /\ Cardinality(Differing(grid, later)) = 1

\* C9: no move Hint collected ranks strictly lower against early than the
\* move it returns.
C9_HintLowestRank ==
    (op = "Hint" /\ ~panicked) =>
        \A k \in Fillable(grid, later) :
            Rank(retMove, grid) <= Rank(MoveFrom(later, k), grid)

\* Hint has preferred its move to a collected move of higher rank.
C9_Witness ==
    /\ op = "Hint"
    /\ ~panicked
    /\ \E k \in Fillable(grid, later) :
          Rank(retMove, grid) < Rank(MoveFrom(later, k), grid)

\* C10 (as claimed): Hint panics whenever a non-zero cell of early holds
\* another value in later, and whenever no cell is empty in early and filled
\* in later.
C10_PanicsOnViolation ==
    (op = "Hint" /\ (Mismatch(grid, later) \/ Fillable(grid, later) = {})) => panicked

\* C10 (amended): Hint panics exactly when no cell is empty in early and
\* filled in later; otherwise it returns a move, also when a non-zero cell
\* of early holds another value in later.
C10_PanicsIffNoMoves ==
    op = "Hint" => (panicked <=> Fillable(grid, later) = {})

\* Hint has panicked on being called with early equal to later.
C10_Witness == op = "Hint" /\ panicked /\ later = grid

\* ---------------------------------------------------------------------
\* Rank

\* The digits whose placement in the empty cell k keeps g valid: none if g
\* already holds a duplicate, else the digits no peer of k holds.
KeepsValid(g, k) == IF HasDuplicate(g) THEN {} ELSE Candidates(g, k)

\* Some empty cell of g has exactly one possibility.
SomeCellForced(g) == \E k \in Empties(g) : Cardinality(KeepsValid(g, k)) = 1

\* The number of non-empty cells of g among the cells S.
NonEmptyIn(g, S) == Cardinality({k \in S : CellAt(g, k) # 0})

RowCells(row) == {k \in Positions : RowOf(k) = row}

ColCells(col) == {k \in Positions : ColOf(k) = col}

\* The cells of the 3x3 box of the board that holds (row, col).
BoxCellsOf(row, col) ==
    {k \in Positions : /\ RowOf(k) \div 3 = row \div 3
                       /\ ColOf(k) \div 3 = col \div 3}

\* The number of cells of g holding v.
Holding(g, v) == Cardinality({k \in Positions : CellAt(g, k) = v})

\* The sum the four counts make on g for the move m.
CountSum(m, g) ==
    NonEmptyIn(g, RowCells(m.Row)) + NonEmptyIn(g, ColCells(m.Col))
    + NonEmptyIn(g, BoxCellsOf(m.Row, m.Col)) + Holding(g, m.Value)

\* C11: when no cell of the applied grid has exactly one possibility,
\* Rank(move, grid) is the sum, on the grid after the move, of the non-empty
\* cells of the move's row, of its column and of its 3x3 box, and of the
\* cells of the whole grid holding the move's digit.
C11_RankIsCountSum ==
    (op = "Rank" /\ ~SomeCellForced(Apply(grid, retMove)))
        => retRank = CountSum(retMove, Apply(grid, retMove))

\* C12: Rank returns 0 whenever some empty cell of the applied grid has
\* exactly one digit that keeps the grid valid, and a positive value when no
\* cell has exactly one possibility.
C12_ZeroIffForced ==
    op = "Rank" =>
        IF SomeCellForced(Apply(grid, retMove)) THEN retRank = 0 ELSE retRank > 0

\* ---------------------------------------------------------------------
\* Backtrack's recursion

\* The number of calls nested inside the outermost one.
Depth == IF stack = << >> THEN 0 ELSE Len(stack) - 1

\* Every call but the outermost was made on a grid with exactly one empty
\* cell fewer than the grid of the call that made it.
OneFewerEmpty ==
    \A j \in 2 .. Len(stack) :
        Cardinality(Empties(stack[j].grid)) = Cardinality(Empties(stack[j - 1].grid)) - 1

\* C13: Backtrack terminates on every input grid: each recursive call is
\* made on a grid with exactly one empty cell fewer than its caller's, so the
\* calls never nest deeper than 81, and every call returns.
C13_Terminates ==
    /\ [](OneFewerEmpty /\ Depth <= N * N)
    /\ (stack # << >>) ~> (op = "Backtrack")

\* The calls are nested as deep as the input has empty cells: the innermost
\* one has been made on a grid with no empty cell left.
C13_Witness ==
    /\ Depth > 0
    /\ Depth = Cardinality(Empties(grid))
    /\ OneFewerEmpty

====
